---------------------------- MODULE Spec2Model ----------------------------
(***************************************************************************)
(* A model of the inorganic-boron partitioning code of inorg_b             *)
(* (helpers.py, model.py, load.py).                                        *)
(*                                                                         *)
(* NUMBERS.  The code computes with Python floats and numpy float64.  The  *)
(* model computes every finite result exactly, as a rational number whose  *)
(* numerator and denominator are arbitrary-precision naturals (sequences   *)
(* of base-1000 limbs, least significant first): rounding error is not     *)
(* modelled.  What is modelled of IEEE arithmetic is its non-finite part:  *)
(* a numpy division by zero gives inf or nan, inf - inf and 0 * inf give   *)
(* nan, nan propagates; zero is unsigned.  A division of two Python floats *)
(* by zero raises ZeroDivisionError, so every value carries the type that  *)
(* Python would give it ("py" float, "np" float64).  The square root, the  *)
(* one irrational operation of the code, is rounded down to SqrtLimbs      *)
(* limbs or more.  Powers of ten are taken of integers only.               *)
(***************************************************************************)
EXTENDS Integers, Sequences, FiniteSets, TLC

Base == 10 * 10 * 10

Max(x, y) == IF x >= y THEN x ELSE y
Min(x, y) == IF x <= y THEN x ELSE y

\* evaluate v, then e with v in the place of its parameter
With(v, e(_)) == CHOOSE r \in {e(x) : x \in {v}} : TRUE

(***************************************************************************)
(* Arbitrary-precision naturals.  The recursions halve their range, so     *)
(* that their depth is the logarithm of the number of limbs.               *)
(***************************************************************************)
NTrim(a) ==
    IF a = <<>> \/ a[Len(a)] # 0 THEN a
    ELSE IF \A i \in 1..Len(a) : a[i] = 0 THEN <<>>
    ELSE SubSeq(a, 1, CHOOSE i \in 1..Len(a) : a[i] # 0 /\ \A j \in (i + 1)..Len(a) : a[j] = 0)

RECURSIVE NFromInt(_)
NFromInt(i) == IF i = 0 THEN <<>> ELSE <<i % Base>> \o NFromInt(i \div Base)

NLimb(a, i) == IF 1 <= i /\ i <= Len(a) THEN a[i] ELSE 0

Reverse(a) == SubSeq([i \in 1..Len(a) |-> a[Len(a) + 1 - i]], 1, Len(a))

\* -1, 0 or 1 as a < b, a = b, a > b
NCmp(a, b) ==
    IF Len(a) > Len(b) THEN 1
    ELSE IF Len(a) < Len(b) THEN -1
    ELSE IF a = b THEN 0
    ELSE IF \E i \in 1..Len(a) : a[i] > b[i] /\ \A j \in (i + 1)..Len(a) : a[j] = b[j] THEN 1
    ELSE -1

\* A carry chain over the positions lo..hi, from the carry c: the limbs it
\* gives and the carry out.  The chain j with j.d = 0 is a + s * b, from the
\* low limb up; with j.d > 0 it is the division of a by the small j.d, from
\* the top limb (position 1) down.
RECURSIVE Scan(_, _, _, _)
ScanJoin(first, second) == <<first[1] \o second[1], second[2]>>

ScanSecond(j, mid, hi, first) == ScanJoin(first, Scan(j, mid + 1, hi, first[2]))

ScanSum(v) == <<<<v % Base>>, v \div Base>>

ScanQuotient(v, d) == <<<<v \div d>>, v % d>>

Scan(j, lo, hi, c) ==
    IF j.d = 0 /\ lo = hi THEN ScanSum(NLimb(j.a, lo) + j.s * NLimb(j.b, lo) + c)
    ELSE IF lo = hi THEN ScanQuotient(c * Base + j.a[Len(j.a) + 1 - lo], j.d)
    ELSE ScanSecond(j, (lo + hi) \div 2, hi, Scan(j, lo, (lo + hi) \div 2, c))

\* the limbs of a chain and its carry out as one natural
NCarry(r) == r[1] \o NFromInt(r[2])

NAdd(a, b) ==
    IF a = <<>> THEN b
    ELSE IF b = <<>> THEN a
    ELSE NCarry(Scan([a |-> a, b |-> b, s |-> 1, d |-> 0], 1, Max(Len(a), Len(b)), 0))

\* a - b for a >= b
NSub(a, b) ==
    IF a = <<>> \/ b = <<>> THEN a
    ELSE NTrim(Scan([a |-> a, b |-> b, s |-> -1, d |-> 0], 1, Len(a), 0)[1])

\* the sum of a[i] * b[k + 1 - i] for i in lo..hi
RECURSIVE NColSum(_, _, _, _, _)
NColSum(a, b, k, lo, hi) ==
    IF lo > hi THEN 0
    ELSE IF lo = hi THEN a[lo] * b[k + 1 - lo]
    ELSE NColSum(a, b, k, lo, (lo + hi) \div 2) + NColSum(a, b, k, (lo + hi) \div 2 + 1, hi)

NColumns(a, b) ==
    SubSeq([k \in 1..(Len(a) + Len(b) - 1) |->
               NColSum(a, b, k, Max(1, k + 1 - Len(b)), Min(k, Len(a)))],
           1, Len(a) + Len(b) - 1)

NMul(a, b) ==
    IF a = <<>> \/ b = <<>> THEN <<>>
    ELSE IF a = <<1>> THEN b
    ELSE IF b = <<1>> THEN a
    ELSE NCarry(Scan([a |-> NColumns(a, b), b |-> <<>>, s |-> 0, d |-> 0],
                     1, Len(a) + Len(b) - 1, 0))

\* quotient and remainder of a by a small d (d * Base fits a machine word)
NDivSmall(a, d) ==
    IF a = <<>> THEN a
    ELSE NTrim(Reverse(Scan([a |-> a, b |-> <<>>, s |-> 0, d |-> d], 1, Len(a), 0)[1]))

NModSmall(a, d) ==
    IF a = <<>> THEN 0 ELSE Scan([a |-> a, b |-> <<>>, s |-> 0, d |-> d], 1, Len(a), 0)[2]

\* a * Base^k
NShift(a, k) == IF a = <<>> \/ k = 0 THEN a ELSE [i \in 1..k |-> 0] \o a

\* the number of zero limbs at the low end of a # 0
NLowZeros(a) == (CHOOSE i \in 1..Len(a) : a[i] # 0 /\ \A j \in 1..(i - 1) : a[j] = 0) - 1

\* whether the root digit q fits: q * (twice + q) <= rem
NRootFits(twice, rem, q) == NCmp(NMul(NAdd(twice, <<q>>), <<q>>), rem) <= 0

\* the largest q = lo + step * k, k in 0..9, that fits (lo fits)
NRootSearch(twice, rem, lo, step) ==
    lo + step * (CHOOSE k \in 0..9 :
                    /\ (k = 9 \/ ~NRootFits(twice, rem, lo + step * (k + 1)))
                    /\ (k = 0 \/ NRootFits(twice, rem, lo + step * k)))

\* the largest digit q with q * (twice + q) <= rem
NRootDigit(twice, rem) ==
    NRootSearch(twice, rem, NRootSearch(twice, rem, NRootSearch(twice, rem, 0, 100), 10), 1)

\* The square root digit by digit, two limbs of a at a time from the top:
\* root and rem are the root and the remainder of the limbs above pair i, cur
\* is rem with pair i brought down, q the digit that pair i gives.
RECURSIVE NIsqrtFrom(_, _, _, _)
NIsqrtDigit(a, i, root, cur, twice, q) ==
    NIsqrtFrom(a, i - 1, NAdd(NShift(root, 1), NFromInt(q)),
               IF q = 0 THEN cur ELSE NSub(cur, NMul(NAdd(twice, <<q>>), <<q>>)))

NIsqrtPair(a, i, root, cur, twice) ==
    NIsqrtDigit(a, i, root, cur, twice, NRootDigit(twice, cur))

NIsqrtFrom(a, i, root, rem) ==
    IF i < 1 THEN root
    ELSE NIsqrtPair(a, i, root,
                    NAdd(NShift(rem, 2), NTrim(<<NLimb(a, 2 * i - 1), NLimb(a, 2 * i)>>)),
                    NShift(NAdd(root, root), 1))

\* floor of the square root
NIsqrt(a) == NIsqrtFrom(a, (Len(a) + 1) \div 2, <<>>, <<>>)

(***************************************************************************)
(* Rationals: [s |-> sign, n |-> numerator, d |-> denominator], d > 0.     *)
(* QNorm cancels the common factors 2, 3, 5, 7 and 134789 (the reference   *)
(* ratio 4.04367 is 3 * 134789 / 10^5): fractions need not be in lowest    *)
(* terms, so they are compared by QCmp, never by =.                        *)
(***************************************************************************)
RECURSIVE IGcd(_, _)
IGcd(x, y) == IF y = 0 THEN x ELSE IGcd(y, x % y)

SmallFactors == 2 * 2 * 2 * 2 * 2 * 3 * 3 * 5 * 5 * 5 * 5 * 7

\* a common factor of n and d, given their common factor g among the small ones
QFactor(n, d, g) ==
    IF g > 1 THEN g
    ELSE IF Len(n) > 1 /\ Len(d) > 1
            /\ NModSmall(n, 134789) = 0 /\ NModSmall(d, 134789) = 0 THEN 134789
    ELSE 1

RECURSIVE QCancel(_, _)
QCancelBy(n, d, g) ==
    IF g > 1 THEN QCancel(NDivSmall(n, g), NDivSmall(d, g)) ELSE <<n, d>>

QCancel(n, d) ==
    QCancelBy(n, d, QFactor(n, d, IGcd(IGcd(NModSmall(n, SmallFactors), SmallFactors),
                                       NModSmall(d, SmallFactors))))

\* n / d without their z common low zero limbs
QCancelZeros(n, d, z) == QCancel(SubSeq(n, z + 1, Len(n)), SubSeq(d, z + 1, Len(d)))

QZero == [s |-> 0, n |-> <<>>, d |-> <<1>>]

QPair(s, c) == [s |-> s, n |-> c[1], d |-> c[2]]

QNorm(s, n, d) ==
    IF s = 0 \/ n = <<>> \/ d = <<>> THEN QZero
    ELSE QPair(s, QCancelZeros(n, d, Min(NLowZeros(n), NLowZeros(d))))

\* the rational i / j of machine integers, j > 0
QInt(i, j) == QNorm(IF i > 0 THEN 1 ELSE IF i < 0 THEN -1 ELSE 0,
                    NFromInt(IF i < 0 THEN -i ELSE i), NFromInt(j))

QNeg(a) == [a EXCEPT !.s = -a.s]

\* sa * x / d + sb * y / d, where c compares x with y
QAddSigned(sa, sb, x, y, d, c) ==
    QNorm(IF sa = sb \/ c > 0 THEN sa ELSE IF c < 0 THEN sb ELSE 0,
          IF sa = sb THEN NAdd(x, y)
          ELSE IF c > 0 THEN NSub(x, y)
          ELSE IF c < 0 THEN NSub(y, x)
          ELSE <<>>,
          d)

QAddOver(sa, sb, x, y, d) == QAddSigned(sa, sb, x, y, d, NCmp(x, y))

QAdd(a, b) ==
    IF a.s = 0 THEN b
    ELSE IF b.s = 0 THEN a
    ELSE QAddOver(a.s, b.s,
                  IF a.d = b.d THEN a.n ELSE NMul(a.n, b.d),
                  IF a.d = b.d THEN b.n ELSE NMul(b.n, a.d),
                  IF a.d = b.d THEN a.d ELSE NMul(a.d, b.d))

QSub(a, b) == QAdd(a, QNeg(b))

QMul(a, b) == QNorm(a.s * b.s, NMul(a.n, b.n), NMul(a.d, b.d))

\* a / b for b # 0
QDiv(a, b) == QNorm(a.s * b.s, NMul(a.n, b.d), NMul(a.d, b.n))

\* -1, 0 or 1 as a < b, a = b, a > b
QCmp(a, b) ==
    IF a.s # b.s THEN (IF a.s > b.s THEN 1 ELSE -1)
    ELSE IF a.s = 0 THEN 0
    ELSE a.s * NCmp(NMul(a.n, b.d), NMul(b.n, a.d))

QAbs(a) == [a EXCEPT !.s = IF a.s = 0 THEN 0 ELSE 1]

\* The square root of x / d^2, rounded down: the root is taken of the top
\* 2 * SqrtLimbs limbs of x (or of x * Base^(2k), when x has fewer), so that
\* it has SqrtLimbs limbs or more, and is exact when x / d^2 is the square of
\* a rational and x no longer than that.
SqrtLimbs == 6

QSqrtOf(x, d) ==
    IF Len(x) \div 2 > SqrtLimbs
    THEN QNorm(1, NShift(NIsqrt(SubSeq(x, 2 * (Len(x) \div 2 - SqrtLimbs) + 1, Len(x))),
                         Len(x) \div 2 - SqrtLimbs),
               d)
    ELSE QNorm(1, NIsqrt(NShift(x, 2 * Max(0, SqrtLimbs - (Len(x) + 1) \div 2))),
               NShift(d, Max(0, SqrtLimbs - (Len(x) + 1) \div 2)))

QSqrt(a) == IF a.s = 0 THEN QZero ELSE QSqrtOf(NMul(a.n, a.d), a.d)

(***************************************************************************)
(* Values.  A scalar is [t, k, q]: t is the Python type ("py": a float or  *)
(* int, "np": a numpy float64), k is "fin", "inf" or "nan", q the rational *)
(* (for "inf", only its sign).  An array is [t |-> "arr", v |-> scalars],  *)
(* a raised exception [t |-> "exc", k |-> its class], and a returned tuple *)
(* [t |-> "tuple", v |-> values].                                          *)
(***************************************************************************)
Fin(t, q) == [t |-> t, k |-> "fin", q |-> q]
Inf(t, s) == [t |-> t, k |-> "inf", q |-> [s |-> s, n |-> <<>>, d |-> <<1>>]]
NaN(t)    == [t |-> t, k |-> "nan", q |-> QZero]
Exc(name) == [t |-> "exc", k |-> name]
Arr(v)    == [t |-> "arr", v |-> v]
Tuple(v)  == [t |-> "tuple", v |-> v]

\* literals of the source text: Python ints and floats
Py(i, j) == Fin("py", QInt(i, j))
Np(i, j) == Fin("np", QInt(i, j))

IsExc(x)    == x.t = "exc"
IsArr(x)    == x.t = "arr"
IsScalar(x) == x.t \in {"py", "np"}
IsFin(x)    == IsScalar(x) /\ x.k = "fin"
IsNaN(x)    == IsScalar(x) /\ x.k = "nan"
IsInf(x)    == IsScalar(x) /\ x.k = "inf"
IsZero(x)   == IsFin(x) /\ x.q.s = 0

\* the type of the result of a binary operation: numpy's wins
ResType(x, y) == IF x.t = "py" /\ y.t = "py" THEN "py" ELSE "np"

SNeg(x) == IF x.k = "nan" THEN x ELSE [x EXCEPT !.q = QNeg(x.q)]

SAddAs(t, x, y) ==
    IF x.k = "nan" \/ y.k = "nan" THEN NaN(t)
    ELSE IF x.k = "inf"
         THEN (IF y.k = "inf" /\ y.q.s # x.q.s THEN NaN(t) ELSE Inf(t, x.q.s))
    ELSE IF y.k = "inf" THEN Inf(t, y.q.s)
    ELSE Fin(t, QAdd(x.q, y.q))

SAdd(x, y) == SAddAs(ResType(x, y), x, y)

SSub(x, y) == SAddAs(ResType(x, y), x, SNeg(y))

SMulAs(t, x, y) ==
    IF x.k = "nan" \/ y.k = "nan" THEN NaN(t)
    ELSE IF x.k = "inf" \/ y.k = "inf"
         THEN (IF x.q.s * y.q.s = 0 THEN NaN(t) ELSE Inf(t, x.q.s * y.q.s))
    ELSE Fin(t, QMul(x.q, y.q))

SMul(x, y) == SMulAs(ResType(x, y), x, y)

\* x / y: float / float raises on a zero divisor, numpy gives inf or nan
SDivAs(t, x, y) ==
    IF IsZero(y) /\ t = "py" THEN Exc("ZeroDivisionError")
    ELSE IF x.k = "nan" \/ y.k = "nan" THEN NaN(t)
    ELSE IF IsZero(y) THEN (IF x.q.s = 0 THEN NaN(t) ELSE Inf(t, x.q.s))
    ELSE IF y.k = "inf" THEN (IF x.k = "inf" THEN NaN(t) ELSE Fin(t, QZero))
    ELSE IF x.k = "inf" THEN Inf(t, x.q.s * y.q.s)
    ELSE Fin(t, QDiv(x.q, y.q))

SDiv(x, y) == SDivAs(ResType(x, y), x, y)

\* x ** (1/2): numpy gives nan for a negative x, Python a complex number
SSqrt(x) ==
    IF x.k = "nan" THEN x
    ELSE IF x.q.s < 0 THEN (IF x.t = "py" THEN Exc("complex") ELSE NaN(x.t))
    ELSE IF x.k = "inf" THEN x
    ELSE Fin(x.t, QSqrt(x.q))

\* 10^e
NPow10(e) == NShift(<<IF e % 3 = 0 THEN 1 ELSE IF e % 3 = 1 THEN 10 ELSE 100>>, e \div 3)

\* 10 ** x for a whole x (one limb)
SPow10(x) ==
    IF x.k = "nan" THEN x
    ELSE IF x.k = "inf" THEN (IF x.q.s > 0 THEN x ELSE Fin(x.t, QZero))
    ELSE IF x.q.s = 0 THEN Fin(x.t, QInt(1, 1))
    ELSE IF x.q.d # <<1>> \/ Len(x.q.n) # 1 THEN Exc("unmodelled")
    ELSE Fin(x.t, QNorm(1, IF x.q.s > 0 THEN NPow10(x.q.n[1]) ELSE <<1>>,
                           IF x.q.s > 0 THEN <<1>> ELSE NPow10(x.q.n[1])))

\* the place of x on the line: -1 and 1 for the infinities, 0 for the finite
SSide(x) == IF x.k = "inf" THEN x.q.s ELSE 0

\* -1, 0, 1 as x < y, x = y, x > y, for x and y not nan
SCmp(x, y) ==
    IF x.k = "inf" \/ y.k = "inf"
    THEN (IF SSide(x) > SSide(y) THEN 1 ELSE IF SSide(x) < SSide(y) THEN -1 ELSE 0)
    ELSE QCmp(x.q, y.q)

\* the same number (nan equals nothing), whatever the type and the fraction
SEq(x, y) ==
    /\ IsScalar(x) /\ IsScalar(y)
    /\ x.k # "nan" /\ y.k # "nan"
    /\ x.k = y.k
    /\ SCmp(x, y) = 0

(***************************************************************************)
(* numpy's elementwise operations with broadcasting: a scalar or an array  *)
(* of one element stretches to the other operand's length, two arrays of   *)
(* different lengths (neither 1) raise ValueError.                         *)
(***************************************************************************)
\* the first exception among the values v, if there is one
FirstExc(v) ==
    v[CHOOSE i \in 1..Len(v) : IsExc(v[i]) /\ \A j \in 1..(i - 1) : ~IsExc(v[j])]

\* element i of x stretched
Elem(x, i) == IF ~IsArr(x) THEN x ELSE IF Len(x.v) = 1 THEN x.v[1] ELSE x.v[i]

BroadcastLen(x, y) ==
    IF IsArr(x) /\ Len(x.v) # 1 THEN Len(x.v)
    ELSE IF IsArr(y) THEN Len(y.v)
    ELSE 1

Shaped(v) == IF \E i \in 1..Len(v) : IsExc(v[i]) THEN FirstExc(v) ELSE Arr(v)

BinOp(F(_, _), x, y) ==
    IF IsExc(x) THEN x
    ELSE IF IsExc(y) THEN y
    ELSE IF ~IsArr(x) /\ ~IsArr(y) THEN F(x, y)
    ELSE IF IsArr(x) /\ IsArr(y) /\ Len(x.v) # Len(y.v) /\ Len(x.v) # 1 /\ Len(y.v) # 1
         THEN Exc("ValueError")
    ELSE Shaped(SubSeq([i \in 1..BroadcastLen(x, y) |-> F(Elem(x, i), Elem(y, i))],
                       1, BroadcastLen(x, y)))

UnOp(F(_), x) ==
    IF IsExc(x) THEN x
    ELSE IF ~IsArr(x) THEN F(x)
    ELSE Shaped(SubSeq([i \in 1..Len(x.v) |-> F(x.v[i])], 1, Len(x.v)))

Add(x, y) == BinOp(SAdd, x, y)
Sub(x, y) == BinOp(SSub, x, y)
Mul(x, y) == BinOp(SMul, x, y)
Div(x, y) == BinOp(SDiv, x, y)
Neg(x)    == UnOp(SNeg, x)
Sq(x)     == Mul(x, x)
Sqrt(x)   == UnOp(SSqrt, x)
Pow10(x)  == UnOp(SPow10, x)

\* the sum of the terms lo..hi of v
RECURSIVE SumOf(_, _, _)
SumOf(v, lo, hi) ==
    IF lo = hi THEN v[lo]
    ELSE Add(SumOf(v, lo, (lo + hi) \div 2), SumOf(v, (lo + hi) \div 2 + 1, hi))

\* a returned tuple, or the exception that one of its parts raised
Return(v) == IF \E i \in 1..Len(v) : IsExc(v[i]) THEN FirstExc(v) ELSE Tuple(v)

(***************************************************************************)
(* helpers.py: the unit converters and the two solution-isotope solvers.   *)
(***************************************************************************)
\* the default SRM_ratio = 4.04367 of the converters (NIST951 11B/10B)
SRM_ratio == Py(404367, 100000)

d11_2_A11(d11, ratio) ==
    Div(Mul(ratio, Add(Div(d11, Py(1000, 1)), Py(1, 1))),
        Add(Mul(ratio, Add(Div(d11, Py(1000, 1)), Py(1, 1))), Py(1, 1)))

A11_2_d11(A11, ratio) ==
    Mul(Sub(Div(Div(A11, Sub(Py(1, 1), A11)), ratio), Py(1, 1)), Py(1000, 1))

A11_2_R11(A11) == Div(A11, Sub(Py(1, 1), A11))

\* a variant that reads the delta in percent
d11_2_R11_percent(d11, ratio) == Mul(Add(Div(d11, Py(100, 1)), Py(1, 1)), ratio)

d11_2_R11(d11, ratio) == Mul(Add(Div(d11, Py(1000, 1)), Py(1, 1)), ratio)

\* a variant that gives the delta in percent
R11_2_d11_percent(R11, ratio) == Mul(Sub(Div(R11, ratio), Py(1, 1)), Py(100, 1))

R11_2_d11(R11, ratio) == Mul(Sub(Div(R11, ratio), Py(1, 1)), Py(1000, 1))

\* a variant that counts the light isotope twice
R11_2_A11_twice(R11) == Div(R11, Add(Py(2, 1), R11))

R11_2_A11(R11) == Div(R11, Add(Py(1, 1), R11))

sol_B_iso(BT, BO4, d11B_total, alpha) ==
    With(Mul(Py(1000, 1), Sub(alpha, Py(1, 1))), LAMBDA eps :
    With(Sub(BT, BO4), LAMBDA BO3 :
    With(Div(Sub(Mul(d11B_total, BT), Mul(eps, BO3)), Add(BO4, Mul(alpha, BO3))),
         LAMBDA d11BO4 :
    With(Add(d11BO4, eps), LAMBDA d11BO3 :
    Return(<<d11BO4, d11BO3>>)))))

\* a variant of the terms under the root with the fifth term's sign changed
Rae2018_terms_plus(alpha, R_BT, Hval, Kbval) ==
    << Mul(Sq(Hval), Sq(R_BT)),
       Mul(Mul(Mul(Py(2, 1), Sq(Hval)), R_BT), alpha),
       Mul(Sq(Hval), Sq(alpha)),
       Mul(Mul(Mul(Mul(Py(2, 1), Hval), Kbval), Sq(R_BT)), alpha),
       Mul(Mul(Mul(Mul(Py(2, 1), Hval), Kbval), R_BT), Sq(alpha)),
       Mul(Mul(Mul(Mul(Py(8, 1), Hval), Kbval), R_BT), alpha),
       Neg(Mul(Mul(Mul(Py(2, 1), Hval), Kbval), R_BT)),
       Mul(Mul(Mul(Py(2, 1), Hval), Kbval), alpha),
       Mul(Mul(Sq(Kbval), Sq(R_BT)), Sq(alpha)),
       Mul(Mul(Mul(Py(2, 1), Sq(Kbval)), R_BT), alpha),
       Sq(Kbval) >>

\* the eleven terms under the square root of RB4
Rae2018_terms(alpha, R_BT, Hval, Kbval) ==
    << Mul(Sq(Hval), Sq(R_BT)),
       Mul(Mul(Mul(Py(2, 1), Sq(Hval)), R_BT), alpha),
       Mul(Sq(Hval), Sq(alpha)),
       Mul(Mul(Mul(Mul(Py(2, 1), Hval), Kbval), Sq(R_BT)), alpha),
       Neg(Mul(Mul(Mul(Mul(Py(2, 1), Hval), Kbval), R_BT), Sq(alpha))),
       Mul(Mul(Mul(Mul(Py(8, 1), Hval), Kbval), R_BT), alpha),
       Neg(Mul(Mul(Mul(Py(2, 1), Hval), Kbval), R_BT)),
       Mul(Mul(Mul(Py(2, 1), Hval), Kbval), alpha),
       Mul(Mul(Sq(Kbval), Sq(R_BT)), Sq(alpha)),
       Mul(Mul(Mul(Py(2, 1), Sq(Kbval)), R_BT), alpha),
       Sq(Kbval) >>

sol_B_iso_Rae2018(pH, BO4, BT, alpha, d11BT) ==
    With(d11_2_R11(d11BT, SRM_ratio), LAMBDA R_BT :
    With(Pow10(Neg(pH)), LAMBDA Hval :
    With(Div(Mul(BO4, Hval), Sub(BT, BO4)), LAMBDA Kbval :
    With(Sqrt(SumOf(Rae2018_terms(alpha, R_BT, Hval, Kbval), 1, 11)), LAMBDA root :
    With(Div(Add(Add(Sub(Sub(root, Mul(Hval, alpha)), Kbval), Mul(Hval, R_BT)),
                 Mul(Mul(Kbval, R_BT), alpha)),
             Mul(Mul(Py(2, 1), alpha), Add(Hval, Kbval))),
         LAMBDA RB4 :
    With(Mul(RB4, alpha), LAMBDA RB3 :
    Return(<<R11_2_d11(RB4, SRM_ratio), R11_2_d11(RB3, SRM_ratio)>>)))))))

(***************************************************************************)
(* model.py: the surface-kinetic rS formula, the four predictors and the   *)
(* four cost functions.  None is Python's None.                            *)
(***************************************************************************)
None == [t |-> "None"]

\* a value as numpy's float64
AsNp(x) == [x EXCEPT !.t = "np"]

\* the elements of an array, a scalar being an array of one
Items(x) == IF IsArr(x) THEN x.v ELSE <<x>>

\* np.sum(x)
NpSum(x) ==
    IF IsExc(x) THEN x
    ELSE IF Items(x) = <<>> THEN Np(0, 1)
    ELSE AsNp(SumOf(Items(x), 1, Len(Items(x))))

Largest(v)  == v[CHOOSE i \in 1..Len(v) : \A j \in 1..Len(v) : SCmp(v[i], v[j]) >= 0]
Smallest(v) == v[CHOOSE i \in 1..Len(v) : \A j \in 1..Len(v) : SCmp(v[i], v[j]) <= 0]

\* np.ptp(x): the largest element less the smallest, nan if one is nan
NpPtp(x) ==
    IF IsExc(x) THEN x
    ELSE IF Items(x) = <<>> THEN Exc("ValueError")
    ELSE IF \E i \in 1..Len(Items(x)) : IsNaN(Items(x)[i]) THEN NaN("np")
    ELSE AsNp(SSub(Largest(Items(x)), Smallest(Items(x))))

rS_calc(Rb, Rp, Kf, rL, Kb) ==
    With(Add(Rp, Rb), LAMBDA Rf :
    Div(Mul(Mul(Kf, rL), Rf), Add(Mul(Rb, Kb), Rp)))

\* a variant of predfn that leaves the borate out of the total
predfn_borate_lost(Kb3, Kf3, Kb4, Kf4, logRb, Rp, rL3, rL4, B_DIC, ABO3, ABO4, dBO4) ==
    With(Pow10(logRb), LAMBDA Rb :
    With(rS_calc(Rb, Rp, Kf4, rL4, Kb4), LAMBDA rS4 :
    With(rS_calc(Rb, Rp, Kf3, rL3, Kb3), LAMBDA rS3 :
    With(rS3, LAMBDA rSB :
    With(Div(rSB, B_DIC), LAMBDA KB :
    With(Div(Add(Mul(ABO3, rS3), Mul(ABO4, rS4)), rSB), LAMBDA ABcal :
    With(Sub(A11_2_d11(ABcal, SRM_ratio), dBO4), LAMBDA DdBcal :
    Return(<<KB, DdBcal>>))))))))

predfn(Kb3, Kf3, Kb4, Kf4, logRb, Rp, rL3, rL4, B_DIC, ABO3, ABO4, dBO4) ==
    With(Pow10(logRb), LAMBDA Rb :
    With(rS_calc(Rb, Rp, Kf4, rL4, Kb4), LAMBDA rS4 :
    With(rS_calc(Rb, Rp, Kf3, rL3, Kb3), LAMBDA rS3 :
    With(Add(rS3, rS4), LAMBDA rSB :
    With(Div(rSB, B_DIC), LAMBDA KB :
    With(Div(Add(Mul(ABO3, rS3), Mul(ABO4, rS4)), rSB), LAMBDA ABcal :
    With(Sub(A11_2_d11(ABcal, SRM_ratio), dBO4), LAMBDA DdBcal :
    Return(<<KB, DdBcal>>))))))))

predfn_single_species(Kb, Kf, logRb, epsilon, Rp, rL, B_DIC, dB, dBO4) ==
    With(Pow10(logRb), LAMBDA Rb :
    With(rS_calc(Rb, Rp, Kf, rL, Kb), LAMBDA rSB :
    With(Div(rSB, B_DIC), LAMBDA KB :
    With(Add(dB, epsilon), LAMBDA dBcal :
    With(Sub(dBcal, dBO4), LAMBDA DdBcal :
    Return(<<KB, DdBcal>>))))))

\* a variant of predfn_BO4fractionated that leaves the offset eps4 out
predfn_BO4fractionated_plain(Kb3, Kf3, Kb4, Kf4, logRb, eps4, Rp, rL3, rL4, B_DIC, dBO3, dBO4) ==
    With(Pow10(logRb), LAMBDA Rb :
    With(rS_calc(Rb, Rp, Kf4, rL4, Kb4), LAMBDA rS4 :
    With(rS_calc(Rb, Rp, Kf3, rL3, Kb3), LAMBDA rS3 :
    With(Add(rS3, rS4), LAMBDA rSB :
    With(Div(rSB, B_DIC), LAMBDA KB :
    With(Div(Add(Mul(d11_2_A11(dBO3, SRM_ratio), rS3),
                 Mul(d11_2_A11(dBO4, SRM_ratio), rS4)), rSB), LAMBDA ABcal :
    With(Sub(A11_2_d11(ABcal, SRM_ratio), dBO4), LAMBDA DdBcal :
    Return(<<KB, DdBcal>>))))))))

predfn_BO4fractionated(Kb3, Kf3, Kb4, Kf4, logRb, eps4, Rp, rL3, rL4, B_DIC, dBO3, dBO4) ==
    With(Pow10(logRb), LAMBDA Rb :
    With(rS_calc(Rb, Rp, Kf4, rL4, Kb4), LAMBDA rS4 :
    With(rS_calc(Rb, Rp, Kf3, rL3, Kb3), LAMBDA rS3 :
    With(Add(rS3, rS4), LAMBDA rSB :
    With(Div(rSB, B_DIC), LAMBDA KB :
    With(Div(Add(Mul(d11_2_A11(dBO3, SRM_ratio), rS3),
                 Mul(d11_2_A11(Add(dBO4, eps4), SRM_ratio), rS4)), rSB), LAMBDA ABcal :
    With(Sub(A11_2_d11(ABcal, SRM_ratio), dBO4), LAMBDA DdBcal :
    Return(<<KB, DdBcal>>))))))))

predfn_fractionated(Kb3, Kf3, Kb4, Kf4, logRb, eps3, eps4, Rp, rL3, rL4, B_DIC, dBO3, dBO4) ==
    With(Pow10(logRb), LAMBDA Rb :
    With(rS_calc(Rb, Rp, Kf4, rL4, Kb4), LAMBDA rS4 :
    With(rS_calc(Rb, Rp, Kf3, rL3, Kb3), LAMBDA rS3 :
    With(Add(rS3, rS4), LAMBDA rSB :
    With(Div(rSB, B_DIC), LAMBDA KB :
    With(Div(Add(Mul(d11_2_A11(Add(dBO3, eps3), SRM_ratio), rS3),
                 Mul(d11_2_A11(Add(dBO4, eps4), SRM_ratio), rS4)), rSB), LAMBDA ABcal :
    With(Sub(A11_2_d11(ABcal, SRM_ratio), dBO4), LAMBDA DdBcal :
    Return(<<KB, DdBcal>>))))))))

\* a variant of the default bias with the two ranges exchanged
BiasOf_exchanged(LambdaB_bias, LambdaB, EpsilonB) ==
    IF LambdaB_bias = None THEN Div(NpPtp(LambdaB), NpPtp(EpsilonB)) ELSE LambdaB_bias

\* LambdaB_bias, or np.ptp(EpsilonB) / np.ptp(LambdaB) when it is None
BiasOf(LambdaB_bias, LambdaB, EpsilonB) ==
    IF LambdaB_bias = None THEN Div(NpPtp(EpsilonB), NpPtp(LambdaB)) ELSE LambdaB_bias

\* a variant of the weighted sum of squares with the bias on both channels
Cost_bias_on_both(bias, calc, LambdaB, EpsilonB, LambdaB_err, EpsilonB_err) ==
    IF IsExc(bias) THEN bias
    ELSE IF IsExc(calc) THEN calc
    ELSE With(Mul(bias, NpSum(Div(Sq(Sub(calc.v[1], LambdaB)), Sq(LambdaB_err)))),
              LAMBDA Lam_err :
         With(Mul(bias, NpSum(Div(Sq(Sub(calc.v[2], EpsilonB)), Sq(EpsilonB_err)))),
              LAMBDA Eps_err :
         Add(Div(Lam_err, Py(2, 1)), Div(Eps_err, Py(2, 1)))))

\* Lam_err / 2 + Eps_err / 2 of the predicted pair calc: the last three
\* statements of each cost function
Cost(bias, calc, LambdaB, EpsilonB, LambdaB_err, EpsilonB_err) ==
    IF IsExc(bias) THEN bias
    ELSE IF IsExc(calc) THEN calc
    ELSE With(Mul(bias, NpSum(Div(Sq(Sub(calc.v[1], LambdaB)), Sq(LambdaB_err)))),
              LAMBDA Lam_err :
         With(NpSum(Div(Sq(Sub(calc.v[2], EpsilonB)), Sq(EpsilonB_err))),
              LAMBDA Eps_err :
         Add(Div(Lam_err, Py(2, 1)), Div(Eps_err, Py(2, 1)))))

\* the call f(*p, ...) of a predictor that takes n parameters before the data
Unpack(p, n, calc) == IF Len(p) # n THEN Exc("TypeError") ELSE calc

fitfn(p, Rp, rL3, rL4, B_DIC, ABO3, ABO4, dBO4, LambdaB, EpsilonB, LambdaB_err, EpsilonB_err, LambdaB_bias) ==
    Cost(BiasOf(LambdaB_bias, LambdaB, EpsilonB),
         Unpack(p, 5, predfn(p[1], p[2], p[3], p[4], p[5],
                             Rp, rL3, rL4, B_DIC, ABO3, ABO4, dBO4)),
         LambdaB, EpsilonB, LambdaB_err, EpsilonB_err)

fitfn_single_species(p, Rp, rL, B_DIC, dB, dBO4, LambdaB, EpsilonB, LambdaB_err, EpsilonB_err, LambdaB_bias) ==
    Cost(BiasOf(LambdaB_bias, LambdaB, EpsilonB),
         Unpack(p, 4, predfn_single_species(p[1], p[2], p[3], p[4],
                                            Rp, rL, B_DIC, dB, dBO4)),
         LambdaB, EpsilonB, LambdaB_err, EpsilonB_err)

fitfn_BO4fractionated(p, Rp, rL3, rL4, B_DIC, dBO3, dBO4, LambdaB, EpsilonB, LambdaB_err, EpsilonB_err, LambdaB_bias) ==
    Cost(BiasOf(LambdaB_bias, LambdaB, EpsilonB),
         Unpack(p, 6, predfn_BO4fractionated(p[1], p[2], p[3], p[4], p[5], p[6],
                                             Rp, rL3, rL4, B_DIC, dBO3, dBO4)),
         LambdaB, EpsilonB, LambdaB_err, EpsilonB_err)

fitfn_fractionated(p, Rp, rL3, rL4, B_DIC, dBO3, dBO4, LambdaB, EpsilonB, LambdaB_err, EpsilonB_err, LambdaB_bias) ==
    Cost(BiasOf(LambdaB_bias, LambdaB, EpsilonB),
         Unpack(p, 7, predfn_fractionated(p[1], p[2], p[3], p[4], p[5], p[6], p[7],
                                          Rp, rL3, rL4, B_DIC, dBO3, dBO4)),
         LambdaB, EpsilonB, LambdaB_err, EpsilonB_err)

(***************************************************************************)
(* The state: the call in progress (the function, its arguments and, for a *)
(* chain of unit conversions, the functions applied so far) and the value  *)
(* it returned.                                                            *)
(***************************************************************************)
VARIABLES call, ret

vars == <<call, ret>>

Types == {"py", "np"}

(***************************************************************************)
(* Unit conversions: a value in delta or ratio notation is converted from  *)
(* notation to notation by the six converters, at most MaxSteps times.     *)
(***************************************************************************)
MaxSteps == 2
DeltaMax == 50

Deltas == {QInt(i, 1) : i \in (-DeltaMax)..DeltaMax}
              \cup {QInt(395, 10), QInt(-1, 8), QInt(174566, 10000)}
Ratios == {QInt(0, 1), QInt(1, 1000), QInt(1, 2), QInt(1, 1), QInt(404367, 100000),
           QInt(42034, 10000), QInt(1000000, 1), QInt(1000000, 7)}
Refs   == {QInt(404367, 100000), QInt(1, 1), QInt(4, 1), QInt(1, 3), QInt(1000, 1)}

InitConv ==
    /\ \E t \in Types, r \in Refs :
         \/ \E d \in Deltas :
              call = [fn |-> "convert", start |-> "d11", note |-> "d11", path |-> <<>>,
                      orig |-> Fin(t, d), ref |-> Fin("py", r)]
         \/ \E R \in Ratios :
              call = [fn |-> "convert", start |-> "R11", note |-> "R11", path |-> <<>>,
                      orig |-> Fin(t, R), ref |-> Fin("py", r)]
    /\ ret = call.orig

Convert(name, from, to, value) ==
    /\ call.fn = "convert"
    /\ call.note = from
    /\ Len(call.path) < MaxSteps
    /\ ~IsExc(ret)
    /\ ret' = value
    /\ call' = [call EXCEPT !.note = to, !.path = Append(@, name)]

Call_d11_2_R11 == Convert("d11_2_R11", "d11", "R11", d11_2_R11(ret, call.ref))
Call_R11_2_d11 == Convert("R11_2_d11", "R11", "d11", R11_2_d11(ret, call.ref))
Call_d11_2_A11 == Convert("d11_2_A11", "d11", "A11", d11_2_A11(ret, call.ref))
Call_A11_2_d11 == Convert("A11_2_d11", "A11", "d11", A11_2_d11(ret, call.ref))
Call_R11_2_A11 == Convert("R11_2_A11", "R11", "A11", R11_2_A11(ret))
Call_A11_2_R11 == Convert("A11_2_R11", "A11", "R11", A11_2_R11(ret))

NextConv ==
    \/ Call_d11_2_R11
    \/ Call_R11_2_d11
    \/ Call_d11_2_A11
    \/ Call_A11_2_d11
    \/ Call_R11_2_A11
    \/ Call_A11_2_R11

SpecConv == InitConv /\ [][NextConv]_vars

(***************************************************************************)
(* Properties of the unit converters.                                      *)
(***************************************************************************)
\* x is finite and lo <= x < hi
InHalfOpen(x, lo, hi) == IsFin(x) /\ SCmp(x, lo) >= 0 /\ SCmp(x, hi) < 0

\* C3: for every delta in -50..50 and every reference ratio > 0, delta ->
\* ratio -> delta and delta -> abundance -> delta, both conversions of a
\* chain using the same reference ratio, return the delta they started from.
C3_RoundTrip ==
    (/\ call.fn = "convert"
     /\ call.start = "d11"
     /\ call.path \in {<<"d11_2_R11", "R11_2_d11">>, <<"d11_2_A11", "A11_2_d11">>})
    => SEq(ret, call.orig)

\* a delta of 39.5 has gone to an abundance and back against the ratio 1/3
C3_Witness ==
    /\ call.fn = "convert"
    /\ call.path = <<"d11_2_A11", "A11_2_d11">>
    /\ SEq(call.orig, Py(395, 10))
    /\ SEq(call.ref, Py(1, 3))
    /\ SEq(ret, Py(395, 10))

InitIdle == call = [fn |-> "idle"] /\ ret = None

\* total boron, and the borate share of it in quarters (4 quarters: BO4 = BT)
Totals    == {QInt(1, 2000), QInt(432, 1000000)}
Quarters  == 0..4
Alphas    == {QInt(1, 1), QInt(1026, 1000), QInt(10272, 10000)}
BulkD11   == {QInt(395, 10), QInt(0, 1), QInt(-10, 1)}
PHs       == {QInt(7, 1), QInt(8, 1), QInt(9, 1)}

Call_sol_B_iso ==
    /\ call.fn = "idle"
    /\ \E t \in Types, BT \in Totals, f \in Quarters, d \in BulkD11, a \in Alphas :
         /\ call' = [fn |-> "sol_B_iso", BT |-> Fin(t, BT),
                     BO4 |-> Fin(t, QMul(BT, QInt(f, 4))),
                     d11B_total |-> Fin(t, d), alpha |-> Fin(t, a)]
         /\ ret' = sol_B_iso(call'.BT, call'.BO4, call'.d11B_total, call'.alpha)

NextSplit == Call_sol_B_iso

SpecSplit == InitIdle /\ [][NextSplit]_vars

\* the borate share of the total boron: the quarters, and a fifth
Shares == {QInt(f, 4) : f \in Quarters} \cup {QInt(1, 5)}

Call_sol_B_iso_Rae2018 ==
    /\ call.fn = "idle"
    /\ \E t \in Types, pH \in PHs, BT \in Totals, f \in Shares, d \in BulkD11, a \in Alphas :
         /\ call' = [fn |-> "sol_B_iso_Rae2018", pH |-> Fin(t, pH),
                     BO4 |-> Fin(t, QMul(BT, f)),
                     BT |-> Fin(t, BT), alpha |-> Fin(t, a), d11BT |-> Fin(t, d)]
         /\ ret' = sol_B_iso_Rae2018(call'.pH, call'.BO4, call'.BT, call'.alpha, call'.d11BT)

NextRae == Call_sol_B_iso_Rae2018

SpecRae == InitIdle /\ [][NextRae]_vars

(***************************************************************************)
(* Calls of rS_calc, of the four predictors and of the four cost           *)
(* functions.  A sample set holds one column per measured quantity, of n   *)
(* samples each (n = 0: one sample given as scalars).                      *)
(***************************************************************************)
MaxSamples == 2

Column(n, f(_)) == Arr(SubSeq([i \in 1..n |-> f(i)], 1, n))

Samples(t, n) ==
    IF n = 0
    THEN [Rp |-> Fin(t, QInt(1, 10)), rL3 |-> Fin(t, QInt(3, 10)),
          rL4 |-> Fin(t, QInt(1, 20)), rL |-> Fin(t, QInt(2, 5)),
          B_DIC |-> Fin(t, QInt(2, 1)),
          ABO3 |-> Fin(t, QInt(8101, 10000)), ABO4 |-> Fin(t, QInt(8051, 10000)),
          dBO3 |-> Fin(t, QInt(45, 1)), dBO4 |-> Fin(t, QInt(18, 1)),
          dB |-> Fin(t, QInt(21, 1))]
    ELSE [Rp |-> Column(n, LAMBDA i : Np(i, 10)),
          rL3 |-> Column(n, LAMBDA i : Np(i + 2, 10)),
          rL4 |-> Column(n, LAMBDA i : Np(i, 20)),
          rL |-> Column(n, LAMBDA i : Np(i + 3, 10)),
          B_DIC |-> Column(n, LAMBDA i : Np(2 * i, 1)),
          ABO3 |-> Column(n, LAMBDA i : Np(8100 + i, 10000)),
          ABO4 |-> Column(n, LAMBDA i : Np(8050 + i, 10000)),
          dBO3 |-> Column(n, LAMBDA i : Np(44 + i, 1)),
          dBO4 |-> Column(n, LAMBDA i : Np(17 + i, 1)),
          dB |-> Column(n, LAMBDA i : Np(20 + i, 1))]

\* parameter values: an ordinary fit, one with the two species alike, and
\* one with Rb * Kb4 + Rp = 0 at the first sample
ParamSets ==
    { [Kb3 |-> QInt(1, 2), Kf3 |-> QInt(2, 1), Kb4 |-> QInt(1, 4), Kf4 |-> QInt(3, 1),
       logRb |-> QInt(-1, 1), eps3 |-> QInt(1, 1), eps4 |-> QInt(-2, 1)],
      [Kb3 |-> QInt(1, 2), Kf3 |-> QInt(2, 1), Kb4 |-> QInt(1, 2), Kf4 |-> QInt(2, 1),
       logRb |-> QInt(0, 1), eps3 |-> QInt(1, 1), eps4 |-> QInt(-2, 1)],
      [Kb3 |-> QInt(1, 2), Kf3 |-> QInt(2, 1), Kb4 |-> QInt(-1, 1), Kf4 |-> QInt(3, 1),
       logRb |-> QInt(-1, 1), eps3 |-> QInt(1, 1), eps4 |-> QInt(-2, 1)] }

\* the same, and with the offset eps3, or both offsets, at zero
PredSets ==
    ParamSets \cup {[f EXCEPT !.eps3 = QInt(0, 1)] : f \in ParamSets}
              \cup {[f EXCEPT !.eps3 = QInt(0, 1), !.eps4 = QInt(0, 1)] : f \in ParamSets}

\* the parameter tuples p of the four variants
P_dual(t, f) ==
    <<Fin(t, f.Kb3), Fin(t, f.Kf3), Fin(t, f.Kb4), Fin(t, f.Kf4), Fin(t, f.logRb)>>
P_single(t, f) == <<Fin(t, f.Kb4), Fin(t, f.Kf4), Fin(t, f.logRb), Fin(t, f.eps4)>>
P_BO4(t, f) == Append(P_dual(t, f), Fin(t, f.eps4))
P_both(t, f) == Append(Append(P_dual(t, f), Fin(t, f.eps3)), Fin(t, f.eps4))

\* the observed values: the predicted ones themselves ("exact"), or
\* measured ones with as many LambdaB values as samples ("same"), a single
\* one ("one") or one more ("more")
ObsKinds == {"exact", "same", "one", "more"}
\* the errors: the default 1, or arrays with as many LambdaB errors as
\* samples ("same"), a single one ("one") or one more ("more")
ErrKinds == {"default", "same", "one", "more"}
Biases == {None, Py(2, 1)}

Stretch(kind, n) == IF kind = "one" THEN 1 ELSE IF kind = "more" THEN n + 1 ELSE n

FitCall(fn, p, d, n, calc, o, e, b) ==
    [fn |-> fn, p |-> p, data |-> d,
     LambdaB |-> IF o = "exact" THEN calc.v[1]
                 ELSE Column(Stretch(o, n), LAMBDA i : Np(i, 4)),
     EpsilonB |-> IF o = "exact" THEN calc.v[2]
                  ELSE Column(n, LAMBDA i : Np(3 * i - 5, 1)),
     LambdaB_err |-> IF e = "default" THEN Py(1, 1)
                     ELSE Column(Stretch(e, n), LAMBDA i : Np(i, 10)),
     EpsilonB_err |-> IF e = "default" THEN Py(1, 1)
                      ELSE Column(n, LAMBDA i : Np(i, 5)),
     LambdaB_bias |-> b]

Call_rS_calc ==
    /\ call.fn = "idle"
    /\ \E t \in Types, Rb \in {QInt(1, 10), QInt(1, 1)},
          Rp \in {QInt(0, 1), QInt(1, 10), QInt(1, 5)}, Kf \in {QInt(0, 1), QInt(2, 1)},
          Kb \in {QInt(-1, 1), QInt(0, 1), QInt(1, 2), QInt(-2, 1)} :
         /\ call' = [fn |-> "rS_calc", Rb |-> Fin(t, Rb), Rp |-> Fin(t, Rp),
                     Kf |-> Fin(t, Kf), rL |-> Fin(t, QInt(1, 2)), Kb |-> Fin(t, Kb)]
         /\ ret' = rS_calc(call'.Rb, call'.Rp, call'.Kf, call'.rL, call'.Kb)

Run_predfn(p, d) ==
    predfn(p[1], p[2], p[3], p[4], p[5],
           d.Rp, d.rL3, d.rL4, d.B_DIC, d.ABO3, d.ABO4, d.dBO4)
Run_predfn_single_species(p, d) ==
    predfn_single_species(p[1], p[2], p[3], p[4], d.Rp, d.rL, d.B_DIC, d.dB, d.dBO4)
Run_predfn_BO4fractionated(p, d) ==
    predfn_BO4fractionated(p[1], p[2], p[3], p[4], p[5], p[6],
                           d.Rp, d.rL3, d.rL4, d.B_DIC, d.dBO3, d.dBO4)
Run_predfn_fractionated(p, d) ==
    predfn_fractionated(p[1], p[2], p[3], p[4], p[5], p[6], p[7],
                        d.Rp, d.rL3, d.rL4, d.B_DIC, d.dBO3, d.dBO4)

Call_predfn ==
    /\ call.fn = "idle"
    /\ \E t \in Types, f \in PredSets, n \in 0..MaxSamples :
         /\ call' = [fn |-> "predfn", p |-> P_dual(t, f), data |-> Samples(t, n)]
         /\ ret' = Run_predfn(call'.p, call'.data)

Call_predfn_single_species ==
    /\ call.fn = "idle"
    /\ \E t \in Types, f \in PredSets, n \in 0..MaxSamples :
         /\ call' = [fn |-> "predfn_single_species", p |-> P_single(t, f),
                     data |-> Samples(t, n)]
         /\ ret' = Run_predfn_single_species(call'.p, call'.data)

Call_predfn_BO4fractionated ==
    /\ call.fn = "idle"
    /\ \E t \in Types, f \in PredSets, n \in 0..MaxSamples :
         /\ call' = [fn |-> "predfn_BO4fractionated", p |-> P_BO4(t, f),
                     data |-> Samples(t, n)]
         /\ ret' = Run_predfn_BO4fractionated(call'.p, call'.data)

Call_predfn_fractionated ==
    /\ call.fn = "idle"
    /\ \E t \in Types, f \in PredSets, n \in 0..MaxSamples :
         /\ call' = [fn |-> "predfn_fractionated", p |-> P_both(t, f),
                     data |-> Samples(t, n)]
         /\ ret' = Run_predfn_fractionated(call'.p, call'.data)

Call_fitfn ==
    /\ call.fn = "idle"
    /\ \E t \in Types, f \in ParamSets, n \in 1..MaxSamples,
          o \in ObsKinds, e \in ErrKinds, b \in Biases :
         /\ call' = FitCall("fitfn", P_dual(t, f), Samples(t, n), n,
                            Run_predfn(P_dual(t, f), Samples(t, n)), o, e, b)
         /\ ret' = fitfn(call'.p, call'.data.Rp, call'.data.rL3, call'.data.rL4,
                         call'.data.B_DIC, call'.data.ABO3, call'.data.ABO4,
                         call'.data.dBO4, call'.LambdaB, call'.EpsilonB,
                         call'.LambdaB_err, call'.EpsilonB_err, call'.LambdaB_bias)

Call_fitfn_single_species ==
    /\ call.fn = "idle"
    /\ \E t \in Types, f \in ParamSets, n \in 1..MaxSamples,
          o \in ObsKinds, e \in ErrKinds, b \in Biases :
         /\ call' = FitCall("fitfn_single_species", P_single(t, f), Samples(t, n), n,
                            Run_predfn_single_species(P_single(t, f), Samples(t, n)),
                            o, e, b)
         /\ ret' = fitfn_single_species(call'.p, call'.data.Rp, call'.data.rL,
                         call'.data.B_DIC, call'.data.dB, call'.data.dBO4,
                         call'.LambdaB, call'.EpsilonB,
                         call'.LambdaB_err, call'.EpsilonB_err, call'.LambdaB_bias)

Call_fitfn_BO4fractionated ==
    /\ call.fn = "idle"
    /\ \E t \in Types, f \in ParamSets, n \in 1..MaxSamples,
          o \in ObsKinds, e \in ErrKinds, b \in Biases :
         /\ call' = FitCall("fitfn_BO4fractionated", P_BO4(t, f), Samples(t, n), n,
                            Run_predfn_BO4fractionated(P_BO4(t, f), Samples(t, n)),
                            o, e, b)
         /\ ret' = fitfn_BO4fractionated(call'.p, call'.data.Rp, call'.data.rL3,
                         call'.data.rL4, call'.data.B_DIC, call'.data.dBO3,
                         call'.data.dBO4, call'.LambdaB, call'.EpsilonB,
                         call'.LambdaB_err, call'.EpsilonB_err, call'.LambdaB_bias)

Call_fitfn_fractionated ==
    /\ call.fn = "idle"
    /\ \E t \in Types, f \in ParamSets, n \in 1..MaxSamples,
          o \in ObsKinds, e \in ErrKinds, b \in Biases :
         /\ call' = FitCall("fitfn_fractionated", P_both(t, f), Samples(t, n), n,
                            Run_predfn_fractionated(P_both(t, f), Samples(t, n)),
                            o, e, b)
         /\ ret' = fitfn_fractionated(call'.p, call'.data.Rp, call'.data.rL3,
                         call'.data.rL4, call'.data.B_DIC, call'.data.dBO3,
                         call'.data.dBO4, call'.LambdaB, call'.EpsilonB,
                         call'.LambdaB_err, call'.EpsilonB_err, call'.LambdaB_bias)

NextFit ==
    \/ Call_rS_calc
    \/ Call_predfn
    \/ Call_predfn_single_species
    \/ Call_predfn_BO4fractionated
    \/ Call_predfn_fractionated
    \/ Call_fitfn
    \/ Call_fitfn_single_species
    \/ Call_fitfn_BO4fractionated
    \/ Call_fitfn_fractionated

SpecFit == InitIdle /\ [][NextFit]_vars

(***************************************************************************)
(* Evaluations of a cost function by several workers on the same data, one *)
(* parameter proposal each, interleaved statement by statement.  The data  *)
(* and the arguments are shared by the workers; each worker has a frame of *)
(* local variables: its proposal p, its place pc in the function body, its *)
(* LambdaB_bias (the argument, rebound by the default), the predicted pair *)
(* calc and the result returned.                                          *)
(***************************************************************************)
MaxWorkers == 2

\* the parameter tuple of a proposal for the variant fn
P_of(fn, t, f) ==
    IF fn = "fitfn" THEN P_dual(t, f)
    ELSE IF fn = "fitfn_single_species" THEN P_single(t, f)
    ELSE IF fn = "fitfn_BO4fractionated" THEN P_BO4(t, f)
    ELSE P_both(t, f)

\* the call of its predictor that the cost function fn makes
Predict(fn, p, d) ==
    IF fn = "fitfn" THEN Unpack(p, 5, Run_predfn(p, d))
    ELSE IF fn = "fitfn_single_species" THEN Unpack(p, 4, Run_predfn_single_species(p, d))
    ELSE IF fn = "fitfn_BO4fractionated"
         THEN Unpack(p, 6, Run_predfn_BO4fractionated(p, d))
    ELSE Unpack(p, 7, Run_predfn_fractionated(p, d))

\* a variant of the assignment that keeps the locals in one place for all workers
Bind_shared(frames, w, name, value) ==
    [x \in DOMAIN frames |-> [frames[x] EXCEPT ![name] = value]]

\* the assignment of value to the local variable name of worker w
Bind(frames, w, name, value) == [frames EXCEPT ![w][name] = value]

InitPool ==
    /\ \E fn \in {"fitfn", "fitfn_single_species", "fitfn_BO4fractionated",
                  "fitfn_fractionated"},
          b \in Biases, fs \in [1..MaxWorkers -> ParamSets] :
         call = [FitCall(fn, <<>>, Samples("np", MaxSamples), MaxSamples, None,
                         "same", "same", b)
                 EXCEPT !.fn = "pool"]
                @@ [variant |-> fn, derived |-> 0,
                    frames |-> [w \in 1..MaxWorkers |->
                                  [p |-> P_of(fn, "py", fs[w]), pc |-> "bias",
                                   LambdaB_bias |-> b, calc |-> None, result |-> None]]]
    /\ ret = None

\* if LambdaB_bias is None: LambdaB_bias = np.ptp(EpsilonB) / np.ptp(LambdaB)
Step_bias(w) ==
    /\ call.fn = "pool"
    /\ call.frames[w].pc = "bias"
    /\ call' = [call EXCEPT
                  !.frames = [Bind(@, w, "LambdaB_bias",
                                   BiasOf(call.frames[w].LambdaB_bias,
                                          call.LambdaB, call.EpsilonB))
                              EXCEPT ![w].pc = "predict"],
                  !.derived = IF call.frames[w].LambdaB_bias = None THEN @ + 1 ELSE @]
    /\ UNCHANGED ret

\* LambdaB_calc, EpsilonB_calc = predictor(*p, ...)
Step_predict(w) ==
    /\ call.fn = "pool"
    /\ call.frames[w].pc = "predict"
    /\ call' = [call EXCEPT
                  !.frames = [Bind(@, w, "calc",
                                   Predict(call.variant, call.frames[w].p, call.data))
                              EXCEPT ![w].pc = "cost"]]
    /\ UNCHANGED ret

\* Lam_err = ...; Eps_err = ...; return Lam_err / 2 + Eps_err / 2
Step_cost(w) ==
    /\ call.fn = "pool"
    /\ call.frames[w].pc = "cost"
    /\ ret' = Cost(call.frames[w].LambdaB_bias, call.frames[w].calc,
                   call.LambdaB, call.EpsilonB, call.LambdaB_err, call.EpsilonB_err)
    /\ call' = [call EXCEPT
                  !.frames = [Bind(@, w, "result", ret') EXCEPT ![w].pc = "done"]]

NextPool ==
    \E w \in 1..MaxWorkers :
        \/ Step_bias(w)
        \/ Step_predict(w)
        \/ Step_cost(w)

SpecPool == InitPool /\ [][NextPool]_vars

(***************************************************************************)
(* load.py: the data-preparation pipeline processed().  A dataset is the   *)
(* set of its columns; a column is <<top level, name, tag>>, the tag being *)
(* the part of the name that package_errors rewrites ("_std" or "_2std"    *)
(* into "_eprop"): <<"Solid", "B/Ca (umol/mol)", "_std">> is the column    *)
(* ('Solid', 'B/Ca_std (umol/mol)').  A read of a column the dataset does  *)
(* not hold raises KeyError.  The values in the columns are not modelled.  *)
(***************************************************************************)
Frame(columns) == [t |-> "frame", columns |-> columns]

\* the columns of the published sheet that the pipeline reads
Measured ==
    {<<"Solid", "B/Ca (umol/mol)", "">>, <<"Solid", "d11B (permil vs NIST951)", "">>,
     <<"Solution", "d11B (permil vs NIST951)", "">>} \cup
    {<<"Solution", c, "">> : c \in {"Temp (°C)", "pH (NBS)", "[Na] (M)", "[Cl] (M)",
                                     "[Ca] (M)", "[B] (M)", "[DIC] (M)", "[Mg] (M)"}}

\* the measurements that may come with a column of uncertainties
WithError ==
    {<<"Solid", "B/Ca (umol/mol)">>, <<"Solid", "d11B (permil vs NIST951)">>,
     <<"Solution", "d11B (permil vs NIST951)">>}

\* the sheet: the measured columns but those absent, and the uncertainties
raw_data(absent, errors) ==
    Frame((Measured \ absent)
          \cup {<<c[1], c[2], errors[c]>> : c \in {x \in WithError : errors[x] # ""}})

\* rd.loc[:, column] for every column of needed, then the result
Reading(rd, needed, result) ==
    IF IsExc(rd) THEN rd
    ELSE IF needed \subseteq rd.columns THEN result ELSE Exc("KeyError")

Writing(rd, written) == Frame(rd.columns \cup written)

package_errors(rd) ==
    With({c \in rd.columns : c[1] \in {"Solid", "Solution"} /\ c[3] \in {"_std", "_2std"}},
         LAMBDA errcs :
    Reading(rd, {<<c[1], c[2], "">> : c \in errcs},
            Writing(rd, {<<c[1], c[2], "_eprop">> : c \in errcs})))

\* the index of the Series that calc_cb returns
calc_cb ==
    {"C", "CO2", "HCO3", "CO3", "B", "BOH3", "BOH4", "BOH4_free", "pH", "temp", "alk",
     "SIc", "SIa", "ion_str", "Ca", "Na", "Cl", "Mg", "K", "SO4"}

calc_cb_rows(df) ==
    Reading(df, {<<"Solution", c, "">> : c \in {"Temp (°C)", "pH (NBS)", "[Na] (M)",
                                                 "[Cl] (M)", "[Ca] (M)", "[B] (M)",
                                                 "[DIC] (M)", "[Mg] (M)"}},
            Frame(calc_cb))

\* a variant of calc_phreeqc that labels the speciation columns 'pitzer'
calc_phreeqc_pitzer(rd, database) ==
    With(calc_cb_rows(rd), LAMBDA sol :
    IF IsExc(sol) THEN sol
    ELSE Writing(rd, {<<"pitzer", c, "">> : c \in sol.columns}))

calc_phreeqc(rd, database) ==
    With(calc_cb_rows(rd), LAMBDA sol :
    IF IsExc(sol) THEN sol
    ELSE Writing(rd, {<<database, c, "">> : c \in sol.columns}))

calc_lambda(rd, numerator, denom, database) ==
    Reading(rd, {<<"Solid", "B/Ca (umol/mol)", "">>, <<database, numerator, "">>,
                 <<database, denom, "">>},
            Writing(rd, {<<"Solid", "LambdaB", "">>} \cup
                        IF <<"Solid", "B/Ca (umol/mol)", "_eprop">> \in rd.columns
                        THEN {<<"Solid", "LambdaB", "_eprop">>} ELSE {}))

calc_sol_iso(rd, database, borate_mode) ==
    With(IF borate_mode = "free" THEN "BOH4_free" ELSE "BOH4", LAMBDA BO4_mode :
    Reading(rd, {<<database, "pH", "">>, <<database, "B", "">>, <<database, BO4_mode, "">>,
                 <<"Solution", "d11B (permil vs NIST951)", "">>},
            Writing(rd, {<<"Solution", "d11BO3 (permil vs NIST951)", "">>,
                         <<"Solution", "d11BO4 (permil vs NIST951)", "">>,
                         <<"Solution", "d11BO3 (permil vs NIST951)", "_eprop">>,
                         <<"Solution", "d11BO4 (permil vs NIST951)", "_eprop">>})))

calc_epsilon(rd) ==
    Reading(rd, {<<"Solid", "d11B (permil vs NIST951)", "">>,
                 <<"Solution", "d11BO4 (permil vs NIST951)", "">>},
            Writing(rd, {<<"Solid", "EpsilonB", "">>} \cup
                        IF /\ <<"Solid", "d11B (permil vs NIST951)", "_eprop">> \in rd.columns
                           /\ <<"Solution", "d11BO4 (permil vs NIST951)", "_eprop">> \in rd.columns
                        THEN {<<"Solid", "EpsilonB", "_eprop">>} ELSE {}))

(***************************************************************************)
(* One call of processed(), a step at a time: call.pc is the statement to  *)
(* run next, call.rd the local rd, call.ran the steps that have run.       *)
(***************************************************************************)
\* the sheet as published, or with one of its columns absent
Absences ==
    {{}} \cup {{c} : c \in {<<"Solid", "B/Ca (umol/mol)", "">>,
                            <<"Solution", "d11B (permil vs NIST951)", "">>,
                            <<"Solution", "pH (NBS)", "">>}}

InitLoad ==
    /\ \E database \in {"pitzer", "minteq.v4"},
          lambda_num \in {"B", "BOH3", "BOH4", "BOH4_free"},
          lambda_denom \in {"C", "HCO3", "CO3"},
          borate_mode \in {"total", "free"},
          absent \in Absences,
          errors \in [WithError -> {"", "_std", "_2std"}] :
          call = [fn |-> "processed", pc |-> "raw_data", database |-> database,
                  lambda_num |-> lambda_num, lambda_denom |-> lambda_denom,
                  borate_mode |-> borate_mode, absent |-> absent, errors |-> errors,
                  rd |-> None, ran |-> <<>>]
    /\ ret = None

\* statement `step` has produced `result`: go on to `next`, or raise
Statement(step, result, next) ==
    /\ call.fn = "processed"
    /\ call.pc = step
    /\ call' = IF IsExc(result) THEN [call EXCEPT !.pc = "raised"]
               ELSE [call EXCEPT !.pc = next, !.rd = result, !.ran = Append(@, step)]
    /\ ret' = IF IsExc(result) THEN result ELSE ret

Step_raw_data ==
    Statement("raw_data", raw_data(call.absent, call.errors), "package_errors")

Step_package_errors ==
    Statement("package_errors", package_errors(call.rd), "calc_phreeqc")

Step_calc_phreeqc ==
    Statement("calc_phreeqc", calc_phreeqc(call.rd, call.database), "calc_lambda")

Step_calc_lambda ==
    Statement("calc_lambda",
              calc_lambda(call.rd, call.lambda_num, call.lambda_denom, call.database),
              "calc_sol_iso")

Step_calc_sol_iso ==
    Statement("calc_sol_iso", calc_sol_iso(call.rd, call.database, call.borate_mode),
              "calc_epsilon")

Step_calc_epsilon ==
    Statement("calc_epsilon", calc_epsilon(call.rd), "return")

\* rd.sort_index(0), rd.sort_index(1), return rd
Step_return ==
    /\ call.fn = "processed"
    /\ call.pc = "return"
    /\ call' = [call EXCEPT !.pc = "done"]
    /\ ret' = call.rd

NextLoad ==
    \/ Step_raw_data
    \/ Step_package_errors
    \/ Step_calc_phreeqc
    \/ Step_calc_lambda
    \/ Step_calc_sol_iso
    \/ Step_calc_epsilon
    \/ Step_return

SpecLoad == InitLoad /\ [][NextLoad]_vars

(***************************************************************************)
(* Properties of the two solvers.                                          *)
(***************************************************************************)
Tolerance == QInt(1, 1000000000)

\* |x - y| <= Tolerance * |y|, for finite x and y
Within(x, y) ==
    /\ IsFin(x) /\ IsFin(y)
    /\ QCmp(QAbs(QSub(x.q, y.q)), QMul(Tolerance, QAbs(y.q))) <= 0

\* sol_B_iso_Rae2018 was called with 0 < BO4 < BT
RaeValid ==
    /\ call.fn = "sol_B_iso_Rae2018"
    /\ SCmp(call.BO4, Py(0, 1)) > 0
    /\ SCmp(call.BO4, call.BT) < 0

\* BO4 * A(d4) + (BT - BO4) * A(d3), A the abundance of a delta
AbundanceSum(BT, BO4, d4, d3) ==
    Add(Mul(BO4, d11_2_A11(d4, SRM_ratio)), Mul(Sub(BT, BO4), d11_2_A11(d3, SRM_ratio)))

\* C1: for every input with 0 < BO4 < total_B, sol_B_iso_Rae2018 returns a
\* pair (delta_BO4, delta_BO3) with BO4 * A(delta_BO4) + (total_B - BO4) *
\* A(delta_BO3) equal, to tolerance, to total_B * A(delta_total_B), where A
\* is d11_2_A11.
C1_AbundanceBalance ==
    RaeValid =>
        /\ ret.t = "tuple"
        /\ Within(AbundanceSum(call.BT, call.BO4, ret.v[1], ret.v[2]),
                  Mul(call.BT, d11_2_A11(call.d11BT, SRM_ratio)))

\* a quarter of the boron is borate, alpha is 1.0272, and the two deltas differ
C1_Witness ==
    /\ RaeValid
    /\ SEq(Mul(Py(4, 1), call.BO4), call.BT)
    /\ SEq(call.alpha, Py(10272, 10000))
    /\ SEq(call.d11BT, Py(395, 10))
    /\ ret.t = "tuple"
    /\ SCmp(ret.v[1], ret.v[2]) < 0

\* C2, as the specification states it: the pair returned by sol_B_iso
\* satisfies delta_total * total_B = delta_BO4 * BO4 + delta_BO3 * BO3
\* exactly, with BO3 = total_B - BO4 and delta_BO3 = delta_BO4 + eps,
\* eps = 1000 * (alpha - 1).
C2_DeltaBalance ==
    (call.fn = "sol_B_iso" /\ ret.t = "tuple")
    => /\ SEq(Mul(call.d11B_total, call.BT),
              Add(Mul(ret.v[1], call.BO4), Mul(ret.v[2], Sub(call.BT, call.BO4))))
       /\ SEq(ret.v[2],
              Add(ret.v[1], Mul(Py(1000, 1), Sub(call.alpha, Py(1, 1)))))

\* C9, as the specification states it: a call of sol_B_iso_Rae2018 with
\* total_B - BO4 = 0 fails with an error and returns no deltas.
C9_DegenerateFails ==
    (call.fn = "sol_B_iso_Rae2018" /\ SEq(call.BO4, call.BT)) => IsExc(ret)

(***************************************************************************)
(* Properties of the predictors and the cost functions.                    *)
(***************************************************************************)
FitNames == {"fitfn", "fitfn_single_species", "fitfn_BO4fractionated",
             "fitfn_fractionated"}

\* the predictor of the variant of the cost function called, on the call's
\* parameters and samples
Predicted ==
    IF call.fn = "fitfn" THEN Run_predfn(call.p, call.data)
    ELSE IF call.fn = "fitfn_single_species"
         THEN Run_predfn_single_species(call.p, call.data)
    ELSE IF call.fn = "fitfn_BO4fractionated"
         THEN Run_predfn_BO4fractionated(call.p, call.data)
    ELSE Run_predfn_fractionated(call.p, call.data)

\* the same outcome: the same number, nan twice, or the same exception
Same(x, y) ==
    IF IsExc(x) \/ IsExc(y) THEN x = y
    ELSE (IsNaN(x) /\ IsNaN(y)) \/ SEq(x, y)

\* arrays (or scalars) of the same length with equal finite elements
AllEqual(x, y) ==
    /\ ~IsExc(x) /\ ~IsExc(y)
    /\ Len(Items(x)) = Len(Items(y))
    /\ \A i \in 1..Len(Items(x)) :
         IsFin(Items(x)[i]) /\ SEq(Items(x)[i], Items(y)[i])

HasZero(x) == ~IsExc(x) /\ \E i \in 1..Len(Items(x)) : IsZero(Items(x)[i])

\* the cost as the specification writes it, from the predicted pair calc
StatedCost(bias, calc, LambdaB, EpsilonB, LambdaB_err, EpsilonB_err) ==
    IF IsExc(bias) THEN bias
    ELSE IF IsExc(calc) THEN calc
    ELSE Add(Div(Mul(bias, NpSum(Sq(Div(Sub(calc.v[1], LambdaB), LambdaB_err)))),
                 Py(2, 1)),
             Div(NpSum(Sq(Div(Sub(calc.v[2], EpsilonB), EpsilonB_err))), Py(2, 1)))

\* C5: each of the four cost functions returns bias * sum(((KB_pred -
\* KB_obs) / err_KB)^2) / 2 + sum(((Eps_pred - Eps_obs) / err_Eps)^2) / 2,
\* (KB_pred, Eps_pred) being the output of the predictor of the same variant
\* on p and the samples; the bias multiplies the LambdaB channel only.
C5_CostFormula ==
    call.fn \in FitNames
    => Same(ret, StatedCost(BiasOf(call.LambdaB_bias, call.LambdaB, call.EpsilonB),
                            Predicted, call.LambdaB, call.EpsilonB,
                            call.LambdaB_err, call.EpsilonB_err))

\* fitfn_fractionated has returned a positive cost for two samples with
\* error arrays and a bias of 2
C5_Witness ==
    /\ call.fn = "fitfn_fractionated"
    /\ call.LambdaB_bias = Py(2, 1)
    /\ IsArr(call.LambdaB_err) /\ Len(call.LambdaB_err.v) = 2
    /\ Len(call.LambdaB.v) = 2
    /\ IsFin(ret) /\ SCmp(ret, Py(0, 1)) > 0

\* the observed arrays and the error arrays are as long as the sample set
WellShaped ==
    /\ Len(call.LambdaB.v) = Len(call.data.Rp.v)
    /\ Len(call.EpsilonB.v) = Len(call.data.Rp.v)
    /\ IsArr(call.LambdaB_err) => Len(call.LambdaB_err.v) = Len(call.data.Rp.v)
    /\ IsArr(call.EpsilonB_err) => Len(call.EpsilonB_err.v) = Len(call.data.Rp.v)

\* C6, as the specification states it: the cost is 0 whenever the predicted
\* LambdaB and EpsilonB arrays equal the observed ones, for any nonzero
\* error arrays and any bias, supplied or defaulted.
C6_ZeroAtExactFit ==
    (/\ call.fn \in FitNames
     /\ WellShaped
     /\ ~HasZero(call.LambdaB_err) /\ ~HasZero(call.EpsilonB_err)
     /\ ~IsExc(Predicted)
     /\ AllEqual(Predicted.v[1], call.LambdaB)
     /\ AllEqual(Predicted.v[2], call.EpsilonB))
    => IsZero(ret)

\* Rb * Kb + Rp of a cost function's call is zero at some sample
FitDenominatorZero ==
    IF call.fn = "fitfn_single_species"
    THEN HasZero(Add(Mul(Pow10(call.p[3]), call.p[1]), call.data.Rp))
    ELSE \/ HasZero(Add(Mul(Pow10(call.p[5]), call.p[1]), call.data.Rp))
         \/ HasZero(Add(Mul(Pow10(call.p[5]), call.p[3]), call.data.Rp))

\* C7, as the specification states it: rS_calc with Rb * Kb + Rp = 0
\* returns nan or inf and raises nothing, and a cost function whose
\* parameters make that denominator zero returns nan.
C7_DegenerateDenominator ==
    /\ (call.fn = "rS_calc" /\ HasZero(Add(Mul(call.Rb, call.Kb), call.Rp)))
       => (IsNaN(ret) \/ IsInf(ret))
    /\ (call.fn \in FitNames /\ WellShaped /\ FitDenominatorZero)
       => IsNaN(ret)

\* C8: with Kb3 = Kb4 = Kb and Kf3 = Kf4 = Kf (and Rb * Kb + Rp nonzero),
\* predfn's total rSB = KB * B_DIC equals rS_calc(Rb, Rp, Kf, rL3 + rL4, Kb),
\* and its KB equals the KB of predfn_single_species called with
\* rL = rL3 + rL4 and the same Kb, Kf, logRb, Rp and B_DIC.
C8_SingleSpeciesLimit ==
    (/\ call.fn = "predfn"
     /\ SEq(call.p[1], call.p[3]) /\ SEq(call.p[2], call.p[4])
     /\ ~HasZero(Add(Mul(Pow10(call.p[5]), call.p[1]), call.data.Rp)))
    => /\ ret.t = "tuple"
       /\ AllEqual(Mul(ret.v[1], call.data.B_DIC),
                   rS_calc(Pow10(call.p[5]), call.data.Rp, call.p[2],
                           Add(call.data.rL3, call.data.rL4), call.p[1]))
       /\ AllEqual(ret.v[1],
                   predfn_single_species(call.p[1], call.p[2], call.p[5], Py(0, 1),
                                         call.data.Rp,
                                         Add(call.data.rL3, call.data.rL4),
                                         call.data.B_DIC, call.data.dB,
                                         call.data.dBO4).v[1])

\* predfn has returned for two samples with the two species alike
C8_Witness ==
    /\ call.fn = "predfn"
    /\ SEq(call.p[1], call.p[3]) /\ SEq(call.p[2], call.p[4])
    /\ IsArr(call.data.Rp) /\ Len(call.data.Rp.v) = 2
    /\ ret.t = "tuple"
    /\ SCmp(ret.v[1].v[1], Py(0, 1)) > 0

\* C10, as the specification states it: a cost function called with an
\* error array of another length than its observed array, or with observed
\* arrays of another length than the predicted ones, fails with a shape
\* error and returns no cost.
C10_MismatchFails ==
    (call.fn \in FitNames /\ ~WellShaped)
    => (IsExc(ret) /\ ret.k = "ValueError")

(***************************************************************************)
(* Properties of evaluations on the same data.                             *)
(***************************************************************************)
\* the workers that have passed the default of the bias
Biased == {w \in 1..MaxWorkers : call.frames[w].pc # "bias"}

\* C11, the part of it that holds: when no bias is supplied, the bias that
\* every evaluation on the same data applies is range(EpsilonB) /
\* range(LambdaB) of the observed arrays, the same value for every
\* evaluation whatever its parameter vector and its predictions.
C11_SameBias ==
    (call.fn = "pool" /\ call.LambdaB_bias = None)
    => /\ \A w \in Biased :
            Same(call.frames[w].LambdaB_bias,
                 Div(NpPtp(call.EpsilonB), NpPtp(call.LambdaB)))
       /\ \A v, w \in Biased :
            Same(call.frames[v].LambdaB_bias, call.frames[w].LambdaB_bias)

\* two evaluations with different parameter vectors have both returned,
\* with the bias 3 / (1/4) = 12 of the observed arrays
C11_Witness ==
    /\ call.fn = "pool"
    /\ call.LambdaB_bias = None
    /\ call.frames[1].pc = "done" /\ call.frames[2].pc = "done"
    /\ call.frames[1].p # call.frames[2].p
    /\ ~Same(call.frames[1].result, call.frames[2].result)
    /\ SEq(call.frames[1].LambdaB_bias, Py(12, 1))
    /\ SEq(call.frames[2].LambdaB_bias, Py(12, 1))

\* C11, as the specification states it: the default bias is computed once
\* from the data and not derived again at each evaluation.
C11_ComputedOnce == call.fn = "pool" => call.derived <= 1

\* the cost function fn called alone with the arguments of the record c
FitAlone(fn, p, c) ==
    IF fn = "fitfn"
    THEN fitfn(p, c.data.Rp, c.data.rL3, c.data.rL4, c.data.B_DIC, c.data.ABO3,
               c.data.ABO4, c.data.dBO4, c.LambdaB, c.EpsilonB,
               c.LambdaB_err, c.EpsilonB_err, c.LambdaB_bias)
    ELSE IF fn = "fitfn_single_species"
    THEN fitfn_single_species(p, c.data.Rp, c.data.rL, c.data.B_DIC, c.data.dB,
               c.data.dBO4, c.LambdaB, c.EpsilonB,
               c.LambdaB_err, c.EpsilonB_err, c.LambdaB_bias)
    ELSE IF fn = "fitfn_BO4fractionated"
    THEN fitfn_BO4fractionated(p, c.data.Rp, c.data.rL3, c.data.rL4, c.data.B_DIC,
               c.data.dBO3, c.data.dBO4, c.LambdaB, c.EpsilonB,
               c.LambdaB_err, c.EpsilonB_err, c.LambdaB_bias)
    ELSE fitfn_fractionated(p, c.data.Rp, c.data.rL3, c.data.rL4, c.data.B_DIC,
               c.data.dBO3, c.data.dBO4, c.LambdaB, c.EpsilonB,
               c.LambdaB_err, c.EpsilonB_err, c.LambdaB_bias)

\* the arguments that the workers of a pool were called with
PoolArguments ==
    FitCall("pool", <<>>, Samples("np", MaxSamples), MaxSamples, None,
            "same", "same", call.LambdaB_bias)

\* C12: the predictors and the cost functions are deterministic and free
\* of side effects: in any interleaving of evaluations of independent
\* proposals on the same data, each evaluation predicts and returns what
\* it returns when evaluated alone, two evaluations of the same proposal
\* return the same, and the shared arrays and arguments stay as passed.
C12_Deterministic ==
    call.fn = "pool"
    => /\ \A w \in 1..MaxWorkers :
            /\ call.frames[w].pc \in {"cost", "done"}
               => call.frames[w].calc = Predict(call.variant, call.frames[w].p, call.data)
            /\ call.frames[w].pc = "done"
               => Same(call.frames[w].result,
                       FitAlone(call.variant, call.frames[w].p, call))
       /\ \A v, w \in 1..MaxWorkers :
            (/\ call.frames[v].pc = "done" /\ call.frames[w].pc = "done"
             /\ call.frames[v].p = call.frames[w].p)
            => Same(call.frames[v].result, call.frames[w].result)
       /\ \A name \in {"data", "LambdaB", "EpsilonB", "LambdaB_err", "EpsilonB_err"} :
            call[name] = PoolArguments[name]

\* one evaluation has returned while another, of a different proposal, has
\* predicted and not yet returned
C12_Witness ==
    /\ call.fn = "pool"
    /\ call.frames[1].pc = "done"
    /\ call.frames[2].pc = "cost"
    /\ call.frames[1].p # call.frames[2].p
    /\ IsFin(call.frames[1].result)
    /\ call.frames[1].calc # call.frames[2].calc

(***************************************************************************)
(* The end-to-end scenario of the solver.                                  *)
(***************************************************************************)
\* sol_B_iso_Rae2018(pH = 8, BO4 = 0.1e-3, BT = 0.5e-3, alpha = 1.0272,
\* d11BT = 39.5) was called
Scenario ==
    /\ call.fn = "sol_B_iso_Rae2018"
    /\ SEq(call.pH, Py(8, 1))
    /\ SEq(call.BO4, Py(1, 10000))
    /\ SEq(call.BT, Py(5, 10000))
    /\ SEq(call.alpha, Py(10272, 10000))
    /\ SEq(call.d11BT, Py(395, 10))

\* |x - y| <= 0.01, for finite x and y
Near(x, y) ==
    /\ IsFin(x) /\ IsFin(y)
    /\ QCmp(QAbs(QSub(x.q, y.q)), QInt(1, 100)) <= 0

\* C13, as the code has it: for the scenario, sol_B_iso_Rae2018 returns
\* (delta_BO4, delta_BO3) with delta_BO3 - delta_BO4 = (alpha - 1) * (1000 +
\* delta_BO4), which is within 0.01 of 27.67 (R_B3 = alpha * R_B4, both
\* ratios converted to delta).
C13_ScenarioGap ==
    Scenario
    => /\ ret.t = "tuple"
       /\ Near(Sub(ret.v[2], ret.v[1]), Py(2767, 100))
       /\ SEq(Sub(ret.v[2], ret.v[1]),
              Mul(Sub(call.alpha, Py(1, 1)), Add(Py(1000, 1), ret.v[1])))

\* the scenario has returned, with delta_BO4 within 0.01 of 17.46
C13_Witness ==
    /\ Scenario
    /\ ret.t = "tuple"
    /\ Near(ret.v[1], Py(1746, 100))

\* C13, as the specification states it: for the scenario, delta_BO3 -
\* delta_BO4 is within 0.01 of 27.2.
C13_ScenarioGapStated ==
    Scenario => (ret.t = "tuple" /\ Near(Sub(ret.v[2], ret.v[1]), Py(272, 10)))

(***************************************************************************)
(* The nesting of the predictors.                                          *)
(***************************************************************************)
\* arrays (or scalars) of the same length with the same elements
SameAll(x, y) ==
    /\ Len(Items(x)) = Len(Items(y))
    /\ \A i \in 1..Len(Items(x)) : Same(Items(x)[i], Items(y)[i])

\* the same returned pair (KB, EpsilonB), or the same exception
SamePair(x, y) ==
    IF IsExc(x) \/ IsExc(y) THEN x = y
    ELSE SameAll(x.v[1], y.v[1]) /\ SameAll(x.v[2], y.v[2])

\* C14: predfn_fractionated with eps3 = 0 returns the same (KB, EpsilonB) as
\* predfn_BO4fractionated with the same remaining arguments, and
\* predfn_BO4fractionated with eps4 = 0 the same as predfn called with
\* ABO3 = d11_2_A11(dBO3) and ABO4 = d11_2_A11(dBO4).
C14_Nested ==
    /\ (call.fn = "predfn_fractionated" /\ IsZero(call.p[6]))
       => SamePair(ret,
                   predfn_BO4fractionated(call.p[1], call.p[2], call.p[3], call.p[4],
                                          call.p[5], call.p[7],
                                          call.data.Rp, call.data.rL3, call.data.rL4,
                                          call.data.B_DIC, call.data.dBO3,
                                          call.data.dBO4))
    /\ (call.fn = "predfn_BO4fractionated" /\ IsZero(call.p[6]))
       => SamePair(ret,
                   predfn(call.p[1], call.p[2], call.p[3], call.p[4], call.p[5],
                          call.data.Rp, call.data.rL3, call.data.rL4, call.data.B_DIC,
                          d11_2_A11(call.data.dBO3, SRM_ratio),
                          d11_2_A11(call.data.dBO4, SRM_ratio), call.data.dBO4))

\* predfn_fractionated has returned finite predictions for two samples with
\* eps3 = 0 and eps4 = -2
C14_Witness ==
    /\ call.fn = "predfn_fractionated"
    /\ IsZero(call.p[6])
    /\ SEq(call.p[7], Py(-2, 1))
    /\ IsArr(call.data.Rp) /\ Len(call.data.Rp.v) = 2
    /\ ret.t = "tuple"
    /\ \A i \in 1..2 : IsFin(ret.v[1].v[i]) /\ IsFin(ret.v[2].v[i])

(***************************************************************************)
(* The order of the pipeline.                                              *)
(***************************************************************************)
\* step a has run, and step b had run before it
RanAfter(a, b) ==
    \A i \in 1..Len(call.ran) :
        call.ran[i] = a => \E j \in 1..(i - 1) : call.ran[j] = b

\* C15: in processed() calc_sol_iso runs only after calc_phreeqc, calc_epsilon
\* only after calc_sol_iso and calc_lambda only after calc_phreeqc, and, the
\* sheet holding its measured columns, every column a step reads has been
\* written by then: no step raises KeyError.
C15_Prerequisites ==
    call.fn = "processed" =>
        /\ RanAfter("calc_sol_iso", "calc_phreeqc")
        /\ RanAfter("calc_epsilon", "calc_sol_iso")
        /\ RanAfter("calc_lambda", "calc_phreeqc")
        /\ call.absent = {} => ~IsExc(ret)

\* processed() has returned the dataset for the minteq.v4 database and free
\* borate, with the derived columns and their propagated uncertainties
C15_Witness ==
    /\ call.fn = "processed"
    /\ call.pc = "done"
    /\ call.database = "minteq.v4"
    /\ call.borate_mode = "free"
    /\ call.lambda_num = "BOH4_free"
    /\ Len(call.ran) = 6
    /\ {<<"Solid", "LambdaB", "_eprop">>, <<"Solid", "EpsilonB", "_eprop">>,
        <<"Solid", "LambdaB", "">>, <<"Solid", "EpsilonB", "">>} \subseteq ret.columns

Init == InitIdle

Next == NextSplit \/ NextRae \/ NextFit

Spec == Init /\ [][Next]_vars

=============================================================================
